---- MODULE Spec2Model ----
(***************************************************************************)
(* Model of app/services/reverse/assets_download.py: the tiered-fallback   *)
(* asset download AssetsDownloadReverse.request (curl_cffi impersonated +  *)
(* proxied, curl_cffi direct, urllib), wrapped by retry_on_status and      *)
(* followed by the error classification of the enclosing try/except.       *)
(***************************************************************************)
EXTENDS Integers, Sequences, FiniteSets, TLC

VARIABLES
    mode,          \* which entry point the behaviour exercises
    retryable,     \* configuration: the statuses retry_on_status retries on
    budget,        \* configuration: how many cascade passes retry_on_status may run
    token,         \* argument of request
    file_path,     \* argument of request
    call,          \* 1 for the first call of request, 2 for the second
    pc,            \* position of the running call
    url,           \* local url of request (a set: empty until assigned)
    content_type,  \* local content_type of request (a set: empty is None)
    attempt,       \* number of the cascade pass retry_on_status is running
    invoked,       \* tiers invoked in the current cascade pass, in order
    answers,       \* what the upstream answered to each of them
    warnings,      \* logger.warning calls of the current cascade pass
    requests,      \* requests the running call has sent to the upstream
    caught,        \* the exception bound to e in the except block (a set)
    notifs,        \* calls of TokenService.record_fail made by the running call
    recorded,      \* how those calls ended (a set of outcomes)
    result,        \* what the running call handed to its caller (a set)
    script,        \* upstream answers given to the first call, by pass and step
    first,         \* outcome and notifications of the first call
    content,       \* _SimpleResponse.content of the response being iterated
    chunk_size,    \* argument of aiter_content
    idx,           \* loop variable i of aiter_content
    chunks,        \* chunks aiter_content has yielded so far
    plain,         \* target of request(session, token, p)
    slashed,       \* target of request(session, token, "/" + p)
    config,        \* get_config: proxy.base_proxy_url, proxy.asset_proxy_url, proxy.browser
    proxies,       \* local proxies of request (a set: empty is None)
    sent,          \* keyword arguments _single_get built, by tier
    cancelled      \* the call as it was when its task was cancelled (a set)

requestVars == <<call, pc, url, content_type, attempt, invoked, answers,
                 warnings, requests, caught, notifs, recorded, result, script, first>>
inputVars == <<mode, retryable, budget, token, file_path>>
chunkVars == <<content, chunk_size, idx, chunks>>
pathVars == <<plain, slashed>>
configVars == <<config, proxies, sent>>
vars == <<inputVars, requestVars, chunkVars, pathVars, configVars, cancelled>>

----------------------------------------------------------------------------
(* Bounds of the model *)

MaxAttempts == 2
MaxBody == 4
MaxChunk == 3
MaxPathLen == 3
MaxConfigLen == 2

(* Program constants *)

OK == 200
AuthFailed == 401
GenericUpstream == 502

DOWNLOAD_API == <<"https://assets.grok.com">>

Statuses == {200, 206, 401, 503}
Bodies == {"x", "y"}
Tokens == {"t1", "t2"}
RequestPaths == {<<"a", ".png">>, <<"/", "a">>}

----------------------------------------------------------------------------
(* Path handling of request *)

StartsWithSlash(p) == Len(p) > 0 /\ p[1] = "/"

(* the separator added whatever the path begins with *)
NormalizePathAlways(p) == <<"/">> \o p

NormalizePath(p) == IF ~StartsWithSlash(p) THEN <<"/">> \o p ELSE p

TargetUrl(p) == DOWNLOAD_API \o NormalizePath(p)

(* urllib.parse.urlparse(file_path).path: a path beginning with two        *)
(* separators is read as a network location up to the next separator.      *)
UrlPath(fp) ==
    IF Len(fp) >= 2 /\ fp[1] = "/" /\ fp[2] = "/"
    THEN LET later == {i \in 3..Len(fp) : fp[i] = "/"}
         IN  IF later = {} THEN <<>>
             ELSE LET d == CHOOSE i \in later : \A j \in later : i <= j
                  IN  SubSeq(fp, d, Len(fp))
    ELSE fp

RECURSIVE StripTrailing(_)
StripTrailing(p) ==
    IF Len(p) > 0 /\ p[Len(p)] = "/" THEN StripTrailing(SubSeq(p, 1, Len(p) - 1))
    ELSE p

(* pathlib.Path(p).name: the last component, trailing separators dropped *)
PathName(p) ==
    LET q == StripTrailing(p)
        slashes == {i \in 1..Len(q) : q[i] = "/"}
    IN  IF slashes = {} THEN q
        ELSE LET d == CHOOSE i \in slashes : \A j \in slashes : j <= i
             IN  SubSeq(q, d + 1, Len(q))

(* pathlib.Path(p).suffix: the last dotted extension of a name that does   *)
(* not begin with it; an extension followed by more text is not in the     *)
(* table and is read here as no suffix.                                     *)
Suffix(p) ==
    LET n == PathName(p)
    IN  IF Len(n) >= 2 /\ n[Len(n)] \in {".png", ".PNG"} THEN n[Len(n)] ELSE ""

Lower(s) == IF s = ".PNG" THEN ".png" ELSE s

CONTENT_TYPES ==
    [ext \in {".jpg", ".jpeg", ".png", ".webp", ".mp4", ".webm"} |->
        CASE ext = ".jpg" -> "image/jpeg"
          [] ext = ".jpeg" -> "image/jpeg"
          [] ext = ".png" -> "image/png"
          [] ext = ".webp" -> "image/webp"
          [] ext = ".mp4" -> "video/mp4"
          [] ext = ".webm" -> "video/webm"]

(* _CONTENT_TYPES.get(...): the empty set stands for None *)
GuessContentType(fp) ==
    LET ext == Lower(Suffix(UrlPath(fp)))
    IN  IF ext \in DOMAIN CONTENT_TYPES THEN {CONTENT_TYPES[ext]} ELSE {}

(* What request asks the upstream for, given its file_path argument: the   *)
(* content type is guessed from file_path after it was normalized.         *)
RequestTarget(p) ==
    [url |-> TargetUrl(p), content_type |-> GuessContentType(NormalizePath(p))]

----------------------------------------------------------------------------
(* Exceptions.  details_status is details["status"] (empty: no such key),  *)
(* status_code the attribute of that name (empty: absent), details_error   *)
(* details["error"], code the status an HTTPError carries; Str is str(e).  *)

Exc(cls, msg, code) ==
    [cls |-> cls, msg |-> msg, code |-> code, details_status |-> {},
     status_code |-> {}, details_error |-> {}]

Str(e) == [cls |-> e.cls, msg |-> e.msg, code |-> e.code \cup e.details_status]

(* UpstreamException(message=f"... Download failed, {status}",             *)
(*                   details={"status": status})                            *)
DownloadFailed(status) ==
    [cls |-> "UpstreamException", msg |-> "Download failed", code |-> {},
     details_status |-> {status}, status_code |-> {}, details_error |-> {}]

(* UpstreamException(message=f"... Download failed, {str(e)}",             *)
(*                   details={"status": 502, "error": str(e)})              *)
Wrapped(e) ==
    [cls |-> "UpstreamException", msg |-> "Download failed", code |-> {},
     details_status |-> {GenericUpstream}, status_code |-> {},
     details_error |-> {Str(e)}]

IsUpstreamException(e) == e.cls = "UpstreamException"

(* status of the except block of request *)
ExtractStatus(e) ==
    IF e.details_status # {} THEN e.details_status ELSE e.status_code

----------------------------------------------------------------------------
(* The upstream and the two HTTP clients *)

NoAnswer == [kind |-> "error", status |-> 0, body |-> ""]

(* The body of a response that is not 200 is never read by request. *)
HttpAnswers ==
    {[kind |-> "http", status |-> s, body |-> b] :
        s \in Statuses, b \in Bodies} \ 
    {[kind |-> "http", status |-> s, body |-> "y"] : s \in Statuses \ {OK}}

UpstreamAnswers == {NoAnswer} \cup HttpAnswers

(* session.get(url, **kwargs): the response whatever its status, or a      *)
(* transport exception.                                                     *)
CurlGet(a, tier) ==
    IF a.kind = "error"
    THEN [raised |-> {Exc("CurlError", "transport failure", {})}, response |-> {}]
    ELSE [raised |-> {},
          response |-> {[tier |-> tier, status_code |-> a.status, content |-> a.body]}]

(* the response handed back without the status check *)
SingleGetUnchecked(a, tier) == CurlGet(a, tier)

(* _single_get: a response that is not 200 becomes an UpstreamException *)
SingleGet(a, tier) ==
    LET got == CurlGet(a, tier)
    IN  IF got.raised # {} THEN got
        ELSE LET response == CHOOSE r \in got.response : TRUE
             IN  IF response.status_code # OK
                 THEN [raised |-> {DownloadFailed(response.status_code)}, response |-> {}]
                 ELSE got

(* urllib.request.urlopen: the default opener returns 2xx responses and    *)
(* raises HTTPError for every other final status, URLError when there is   *)
(* no response.                                                             *)
UrlOpen(a) ==
    IF a.kind = "error"
    THEN [raised |-> {Exc("URLError", "urlopen error", {})}, response |-> {}]
    ELSE IF ~(200 <= a.status /\ a.status < 300)
    THEN [raised |-> {Exc("HTTPError", "HTTP Error", {a.status})}, response |-> {}]
    ELSE [raised |-> {},
          response |-> {[tier |-> 3, status_code |-> a.status, content |-> a.body]}]

(* the body read after the response was closed *)
UrllibGetClosed(a) ==
    LET got == UrlOpen(a)
    IN  [raised |-> got.raised,
         response |-> {[r EXCEPT !.content = ""] : r \in got.response}]

(* _urllib_get: _do_get run in a worker thread, its result as a            *)
(* _SimpleResponse; an exception of _do_get is raised by the await.        *)
UrllibGet(a) == UrlOpen(a)

(* The last tier of _do_request: the fallback response, or the             *)
(* UpstreamException of a fallback response that is not 200.                *)
FallbackGet(a) ==
    LET got == UrllibGet(a)
    IN  IF got.raised # {} THEN got
        ELSE LET fallback_resp == CHOOSE r \in got.response : TRUE
             IN  IF fallback_resp.status_code # OK
                 THEN [raised |-> {DownloadFailed(fallback_resp.status_code)},
                       response |-> {}]
                 ELSE got

----------------------------------------------------------------------------
(* Collaborators called by request before the cascade (get_config,         *)
(* build_headers): each call returns, or raises an exception that is an    *)
(* UpstreamException or not.                                                *)

Returned == [kind |-> "returned", status |-> 0, body |-> ""]

CollaboratorOutcomes ==
    {Returned, [kind |-> "Exception", status |-> 0, body |-> ""]}
    \cup {[kind |-> "UpstreamException", status |-> s, body |-> w] :
            s \in {AuthFailed, 503}, w \in {"details", "attribute"}}
    \cup {[kind |-> "UpstreamException", status |-> 0, body |-> "neither"]}

CollaboratorRaised(o) ==
    IF o.kind = "Exception" THEN Exc("Exception", "collaborator failed", {})
    ELSE [cls |-> "UpstreamException", msg |-> "collaborator failed", code |-> {},
          details_status |-> IF o.body = "details" THEN {o.status} ELSE {},
          status_code |-> IF o.body = "attribute" THEN {o.status} ELSE {},
          details_error |-> {}]

(* TokenService.record_fail returns or raises *)
RecordFailOutcomes ==
    {Returned, [kind |-> "Exception", status |-> 0, body |-> ""]}

(* retry_on_status: a failure of the wrapped call is retried when it is an *)
(* UpstreamException whose status is in the retryable set and the attempt  *)
(* budget is not used up; every other failure is raised unchanged.         *)
ShouldRetry(e, n) ==
    /\ IsUpstreamException(e)
    /\ ExtractStatus(e) # {}
    /\ ExtractStatus(e) \subseteq retryable
    /\ n < budget

----------------------------------------------------------------------------
(* Replay: the second call of a behaviour that calls request twice is      *)
(* given, at each pass and step, the answer the first call was given.      *)

Scripted(step) == {r \in script : r.attempt = attempt /\ r.step = step}

Choices(step, all) ==
    IF call = 2 /\ Scripted(step) # {} THEN {r.answer : r \in Scripted(step)}
    ELSE all

Recorded(step, a) ==
    IF mode = "twice" /\ call = 1
    THEN script \cup {[attempt |-> attempt, step |-> step, answer |-> a]}
    ELSE script

----------------------------------------------------------------------------
(* request *)

(* a retried pass that goes on where the last one failed *)
DoRequestEntryResume == IF attempt >= 1 THEN "tier3" ELSE "tier1"

(* the tier a call ended at kept for the next call *)
DoRequestEntrySticky == IF call = 2 THEN "tier3" ELSE "tier1"

(* _do_request begins with the impersonated, proxied _single_get *)
DoRequestEntry == "tier1"

(* the direct request left out of the cascade *)
AfterTier1FailedSkip == "tier3"

(* except Exception as first_err / second_err: where the cascade goes on *)
AfterTier1Failed == "tier2"

(* the direct request falling back to the impersonated one *)
AfterTier2FailedBack == "tier1"

(* the direct request tried again in the same pass *)
AfterTier2FailedAgain == "tier2"

(* except Exception as second_err: the urllib fallback *)
AfterTier2Failed == "tier3"

(* a notification on every failure that carries a status *)
NotifyOnAnyStatus(status) == status # {}

(* if status == 401 *)
NotifyOn(status) == status = {AuthFailed}

Notification(status) ==
    [token |-> token, status |-> status, reason |-> "assets_download_auth_failed"]

(* record_fail called by every pass that fails *)
NotifsAfterPassEager(e) == Append(notifs, Notification(ExtractStatus(e)))

(* _do_request raises the failure of tier 3 and calls nothing else: the    *)
(* notifications are what they were                                         *)
NotifsAfterPass(e) == notifs

(* record_fail awaited outside a try block *)
AfterRecordFailUnguarded(o, e) ==
    IF o = Returned THEN e ELSE Exc("Exception", "record_fail failed", {})

(* try: await TokenService.record_fail(...) / except Exception: pass /      *)
(* raise: the exception that leaves the except block                        *)
AfterRecordFail(o, e) == e

(* a bare raise for every exception *)
ClassifiedBareRaise(e) == e

(* the except block's failure for an exception that is no                  *)
(* UpstreamException                                                        *)
Classified(e) == IF IsUpstreamException(e) THEN e ELSE Wrapped(e)

Raise(e) == {[raised |-> {e}, response |-> {}]}

(* lines 79-111 and the first call of _do_request by retry_on_status *)
Prepare ==
    /\ pc = "start"
    /\ \E o \in Choices("start", CollaboratorOutcomes) :
        /\ script' = Recorded("start", o)
        /\ url' = {RequestTarget(file_path).url}
        /\ IF o = Returned
           THEN /\ content_type' = RequestTarget(file_path).content_type
                /\ attempt' = 1
                /\ pc' = DoRequestEntry
                /\ caught' = caught
           ELSE /\ content_type' = content_type
                /\ attempt' = attempt
                /\ pc' = "except"
                /\ caught' = {CollaboratorRaised(o)}
    /\ UNCHANGED <<call, requests, invoked, answers, warnings, notifs, recorded, result, first>>
    /\ UNCHANGED <<inputVars, chunkVars, pathVars, configVars, cancelled>>

(* _single_get(use_impersonate=True, use_proxy=True) and, when it fails,   *)
(* the warning of the first except clause                                   *)
Tier1 ==
    /\ pc = "tier1"
    /\ \E a \in Choices("tier1", UpstreamAnswers) :
        LET got == SingleGet(a, 1)
        IN  /\ script' = Recorded("tier1", a)
            /\ invoked' = Append(invoked, 1)
            /\ answers' = Append(answers, a)
            /\ requests' = requests + 1
            /\ IF got.raised = {}
               THEN /\ result' = {got}
                    /\ pc' = "done"
                    /\ warnings' = warnings
               ELSE /\ result' = result
                    /\ pc' = AfterTier1Failed
                    /\ warnings' = warnings + 1
    /\ UNCHANGED <<call, url, content_type, attempt, caught, notifs, recorded, first>>
    /\ UNCHANGED <<inputVars, chunkVars, pathVars, configVars, cancelled>>

(* _single_get(use_impersonate=False, use_proxy=False) and, when it fails, *)
(* the warning of the second except clause                                  *)
Tier2 ==
    /\ pc = "tier2"
    /\ \E a \in Choices("tier2", UpstreamAnswers) :
        LET got == SingleGet(a, 2)
        IN  /\ script' = Recorded("tier2", a)
            /\ invoked' = Append(invoked, 2)
            /\ answers' = Append(answers, a)
            /\ requests' = requests + 1
            /\ IF got.raised = {}
               THEN /\ result' = {got}
                    /\ pc' = "done"
                    /\ warnings' = warnings
               ELSE /\ result' = result
                    /\ pc' = AfterTier2Failed
                    /\ warnings' = warnings + 1
    /\ UNCHANGED <<call, url, content_type, attempt, caught, notifs, recorded, first>>
    /\ UNCHANGED <<inputVars, chunkVars, pathVars, configVars, cancelled>>

(* _urllib_get, the status check on its response, and what                 *)
(* retry_on_status does with a failure of the pass                          *)
Tier3 ==
    /\ pc = "tier3"
    /\ \E a \in Choices("tier3", UpstreamAnswers) :
        LET got == FallbackGet(a)
        IN  /\ script' = Recorded("tier3", a)
            /\ invoked' = Append(invoked, 3)
            /\ answers' = Append(answers, a)
            /\ requests' = requests + 1
            /\ IF got.raised = {}
               THEN /\ result' = {got}
                    /\ pc' = "done"
                    /\ caught' = caught
                    /\ notifs' = notifs
               ELSE LET e == CHOOSE x \in got.raised : TRUE
                    IN  /\ result' = result
                        /\ notifs' = NotifsAfterPass(e)
                        /\ IF ShouldRetry(e, attempt)
                           THEN pc' = "backoff" /\ caught' = caught
                           ELSE pc' = "except" /\ caught' = {e}
    /\ UNCHANGED <<call, url, content_type, attempt, warnings, recorded, first>>
    /\ UNCHANGED <<inputVars, chunkVars, pathVars, configVars, cancelled>>

(* retry_on_status: the backoff wait is over, _do_request is called again *)
Backoff ==
    /\ pc = "backoff"
    /\ attempt' = attempt + 1
    /\ invoked' = <<>>
    /\ answers' = <<>>
    /\ warnings' = 0
    /\ pc' = DoRequestEntry
    /\ UNCHANGED <<call, requests, url, content_type, caught, notifs, recorded, result, script, first>>
    /\ UNCHANGED <<inputVars, chunkVars, pathVars, configVars, cancelled>>

(* except Exception as e: up to the await of record_fail, or to the raise *)
Except ==
    /\ pc = "except"
    /\ LET e == CHOOSE x \in caught : TRUE
       IN  IF IsUpstreamException(e) /\ NotifyOn(ExtractStatus(e))
           THEN /\ notifs' = Append(notifs, Notification(ExtractStatus(e)))
                /\ pc' = "record_fail"
                /\ result' = result
           ELSE /\ notifs' = notifs
                /\ pc' = "done"
                /\ result' = Raise(Classified(e))
    /\ UNCHANGED <<call, requests, url, content_type, attempt, invoked, answers, warnings,
                   caught, recorded, script, first>>
    /\ UNCHANGED <<inputVars, chunkVars, pathVars, configVars, cancelled>>

(* TokenService.record_fail is over; except Exception: pass; raise *)
RecordFail ==
    /\ pc = "record_fail"
    /\ \E o \in Choices("record_fail", RecordFailOutcomes) :
        /\ script' = Recorded("record_fail", o)
        /\ recorded' = recorded \cup {o}
        /\ result' = Raise(AfterRecordFail(o, CHOOSE x \in caught : TRUE))
    /\ pc' = "done"
    /\ UNCHANGED <<call, requests, url, content_type, attempt, invoked, answers, warnings,
                   caught, notifs, first>>
    /\ UNCHANGED <<inputVars, chunkVars, pathVars, configVars, cancelled>>

(* the caller calls request again, with the same arguments *)
SecondCall ==
    /\ mode = "twice"
    /\ call = 1
    /\ pc = "done"
    /\ first' = {[result |-> result, notifs |-> notifs, recorded |-> recorded]}
    /\ call' = 2
    /\ pc' = "start"
    /\ url' = {}
    /\ content_type' = {}
    /\ attempt' = 0
    /\ invoked' = <<>>
    /\ answers' = <<>>
    /\ warnings' = 0
    /\ requests' = 0
    /\ caught' = {}
    /\ notifs' = <<>>
    /\ recorded' = {}
    /\ result' = {}
    /\ UNCHANGED script
    /\ UNCHANGED <<inputVars, chunkVars, pathVars, configVars, cancelled>>

----------------------------------------------------------------------------
(* Cancellation of the task that runs request.  asyncio raises             *)
(* CancelledError, which is a BaseException, at the await the task is      *)
(* suspended in: session.get of tier 1 or 2, asyncio.to_thread of tier 3,  *)
(* the backoff sleep of retry_on_status.                                    *)

CancelledError == Exc("CancelledError", "", {})

(* an except clause that catches every exception *)
ExceptBaseExceptionCatches(e) == TRUE

(* except Exception: what the clauses of _do_request and of request catch *)
ExceptExceptionCatches(e) == e.cls # "CancelledError"

(* the worker thread of asyncio.to_thread is running while tier 3 is       *)
(* awaited                                                                  *)
Worker(at) == IF at = "tier3" THEN "running" ELSE "none"

Cancel ==
    /\ pc \in {"tier1", "tier2", "tier3", "backoff"}
    /\ cancelled = {}
    /\ cancelled' = {[at |-> pc, attempt |-> attempt, requests |-> requests,
                      warnings |-> warnings, notifs |-> notifs,
                      worker |-> Worker(pc)]}
    /\ IF pc \in {"tier1", "tier2"} /\ ExceptExceptionCatches(CancelledError)
       THEN /\ pc' = IF pc = "tier1" THEN AfterTier1Failed ELSE AfterTier2Failed
            /\ warnings' = warnings + 1
            /\ UNCHANGED <<caught, result>>
       ELSE IF ExceptExceptionCatches(CancelledError)
       THEN /\ pc' = "except"
            /\ caught' = {CancelledError}
            /\ UNCHANGED <<warnings, result>>
       ELSE /\ pc' = "cancelled"
            /\ result' = Raise(CancelledError)
            /\ UNCHANGED <<warnings, caught>>
    /\ UNCHANGED <<call, requests, url, content_type, attempt, invoked, answers,
                   notifs, recorded, script, first>>
    /\ UNCHANGED <<inputVars, chunkVars, pathVars, configVars>>

(* _do_get returns or raises in its thread after the task was cancelled:   *)
(* nothing awaits it any more                                               *)
WorkerFinishes ==
    /\ \E c \in cancelled :
        /\ c.worker = "running"
        /\ \E a \in UpstreamAnswers :
            cancelled' = {[c EXCEPT !.worker = "discarded"]}
    /\ UNCHANGED <<requestVars, inputVars, chunkVars, pathVars, configVars>>

----------------------------------------------------------------------------
(* _SimpleResponse.aiter_content *)

Bytes == {0, 1}

BytesUpTo(n) == UNION {[1..k -> Bytes] : k \in 0..n}

(* self.content or b"" *)
Data(c) == IF c = {} THEN <<>> ELSE CHOOSE d \in c : TRUE

Min(a, b) == IF a <= b THEN a ELSE b

(* data[i:j] for 0 <= i <= j *)
Slice(data, i, j) == SubSeq(data, i + 1, Min(j, Len(data)))

(* a step of range(0, len(data), chunk_size) that leaves a byte out *)
RangeStepGap(i, step) == i + step + 1

(* range(0, len(data), chunk_size): the value after i *)
RangeStep(i, step) == i + step

(* the loop body: yield data[i:i + chunk_size] *)
YieldChunk ==
    /\ mode = "chunks"
    /\ pc = "iterating"
    /\ idx < Len(Data(content))
    /\ chunks' = Append(chunks, Slice(Data(content), idx, idx + chunk_size))
    /\ idx' = RangeStep(idx, chunk_size)
    /\ UNCHANGED <<content, chunk_size, pc>>
    /\ UNCHANGED <<inputVars, pathVars, configVars, cancelled>>
    /\ UNCHANGED <<call, requests, url, content_type, attempt, invoked, answers, warnings,
                   caught, notifs, recorded, result, script, first>>

(* the range is used up: the generator ends *)
StopIteration ==
    /\ mode = "chunks"
    /\ pc = "iterating"
    /\ idx >= Len(Data(content))
    /\ pc' = "exhausted"
    /\ UNCHANGED chunkVars
    /\ UNCHANGED <<inputVars, pathVars, configVars, cancelled>>
    /\ UNCHANGED <<call, requests, url, content_type, attempt, invoked, answers, warnings,
                   caught, notifs, recorded, result, script, first>>

----------------------------------------------------------------------------
(* request called with a path, and with the same path behind a separator *)

PathTokens == {"/", "a", ".png", ".PNG"}

PathsUpTo(n) == UNION {[1..k -> PathTokens] : k \in 0..n}

RequestPlain ==
    /\ mode = "paths"
    /\ plain = {}
    /\ plain' = {RequestTarget(file_path)}
    /\ UNCHANGED <<slashed, inputVars, requestVars, chunkVars, configVars, cancelled>>

RequestSlashed ==
    /\ mode = "paths"
    /\ slashed = {}
    /\ slashed' = {RequestTarget(<<"/">> \o file_path)}
    /\ UNCHANGED <<plain, inputVars, requestVars, chunkVars, configVars, cancelled>>

----------------------------------------------------------------------------
(* Proxy and impersonation configuration of request and _single_get.  A    *)
(* configuration value is a set: empty for None, else one string.          *)

RECURSIVE LStrip(_)
LStrip(str) == IF Len(str) > 0 /\ Head(str) = " " THEN LStrip(Tail(str)) ELSE str

RECURSIVE RStrip(_)
RStrip(str) ==
    IF Len(str) > 0 /\ str[Len(str)] = " " THEN RStrip(SubSeq(str, 1, Len(str) - 1))
    ELSE str

(* (get_config(key) or "").strip() *)
OrEmptyStripped(v) ==
    IF v = {} THEN <<>> ELSE RStrip(LStrip(CHOOSE x \in v : TRUE))

(* the base proxy taken before the asset proxy *)
ProxyUrlBaseFirst(base, asset) ==
    IF OrEmptyStripped(base) # <<>> THEN OrEmptyStripped(base)
    ELSE OrEmptyStripped(asset)

(* proxy_url = asset_proxy or base_proxy *)
ProxyUrl(base, asset) ==
    IF OrEmptyStripped(asset) # <<>> THEN OrEmptyStripped(asset)
    ELSE OrEmptyStripped(base)

(* {"http": proxy_url, "https": proxy_url} if proxy_url else None *)
Proxies(proxy_url) ==
    IF proxy_url # <<>> THEN {[http |-> proxy_url, https |-> proxy_url]} ELSE {}

(* truth value of a configuration value: None and "" are false *)
Truthy(v) == v # {} /\ v # {<<>>}

(* the flags _do_request passes to _single_get *)
TierFlags(tier) ==
    IF tier = 1 THEN [use_impersonate |-> TRUE, use_proxy |-> TRUE]
    ELSE [use_impersonate |-> FALSE, use_proxy |-> FALSE]

(* kwargs of _single_get: a key that is not set is the empty set *)
Kwargs(flags, prox, browser) ==
    [proxies |-> IF flags.use_proxy /\ prox # {} THEN prox ELSE {},
     impersonate |-> IF flags.use_impersonate /\ Truthy(browser) THEN browser ELSE {}]

(* lines 85-89 and 110-111 of request *)
ResolveProxies ==
    /\ mode = "config"
    /\ pc = "start"
    /\ proxies' = Proxies(ProxyUrl(config.base_proxy_url, config.asset_proxy_url))
    /\ pc' = "configured"
    /\ UNCHANGED <<config, sent>>
    /\ UNCHANGED <<inputVars, chunkVars, pathVars, cancelled>>
    /\ UNCHANGED <<call, requests, url, content_type, attempt, invoked, answers,
                   warnings, caught, notifs, recorded, result, script, first>>

(* _single_get up to session.get, for tier 1 and for tier 2 *)
BuildKwargs ==
    /\ mode = "config"
    /\ pc = "configured"
    /\ \E tier \in {1, 2} :
        /\ \A k \in sent : k.tier # tier
        /\ sent' = sent \cup
             {[tier |-> tier, kwargs |-> Kwargs(TierFlags(tier), proxies, config.browser)]}
    /\ UNCHANGED <<config, proxies>>
    /\ UNCHANGED <<inputVars, chunkVars, pathVars, requestVars, cancelled>>

ConfigStrings(ch, n) == UNION {[1..k -> {" ", ch}] : k \in 0..n}

ConfigValues(ch, n) == {{}} \cup {{str} : str \in ConfigStrings(ch, n)}

NoConfig == [base_proxy_url |-> {}, asset_proxy_url |-> {}, browser |-> {}]

IdleConfig == config = NoConfig /\ proxies = {} /\ sent = {} /\ cancelled = {}

IdleRequest ==
    /\ token = "t1" /\ retryable = {} /\ budget = 1
    /\ call = 1 /\ url = {} /\ content_type = {} /\ attempt = 0
    /\ invoked = <<>> /\ answers = <<>> /\ warnings = 0 /\ requests = 0 /\ caught = {}
    /\ notifs = <<>> /\ recorded = {} /\ result = {} /\ script = {} /\ first = {}

IdleChunks == content = {} /\ chunk_size = 1 /\ idx = 0 /\ chunks = <<>>

IdlePaths == plain = {} /\ slashed = {}

RetryableSets == SUBSET (Statuses \ {OK})

InitRequest(m, configs, tokens, paths) ==
    /\ mode = m
    /\ retryable \in configs
    /\ budget \in 1..MaxAttempts
    /\ token \in tokens
    /\ file_path \in paths
    /\ pc = "start"
    /\ call = 1 /\ url = {} /\ content_type = {} /\ attempt = 0
    /\ invoked = <<>> /\ answers = <<>> /\ warnings = 0 /\ requests = 0 /\ caught = {}
    /\ notifs = <<>> /\ recorded = {} /\ result = {} /\ script = {} /\ first = {}
    /\ IdleChunks
    /\ IdlePaths
    /\ IdleConfig

Init == InitRequest("request", RetryableSets, Tokens, RequestPaths)

Next == Prepare \/ Tier1 \/ Tier2 \/ Tier3 \/ Backoff \/ Except \/ RecordFail

Spec == Init /\ [][Next]_vars

(* request called twice with the same arguments *)
InitTwice == InitRequest("twice", {{}, {206, 503}}, {"t1"}, {<<"a", ".png">>})

NextTwice == Next \/ SecondCall

SpecTwice == InitTwice /\ [][NextTwice]_vars

(* request with its task cancelled at any await of the cascade *)
InitCancel == InitRequest("cancel", RetryableSets, {"t1"}, {<<"a", ".png">>})

NextCancel == Next \/ Cancel \/ WorkerFinishes

SpecCancel == InitCancel /\ [][NextCancel]_vars

(* request when every await it makes comes back: a tier attempt ends       *)
(* within its timeout, the backoff wait and record_fail end                *)
InitLive == InitRequest("live", RetryableSets, {"t1"}, {<<"a", ".png">>})

SpecLive == InitLive /\ [][Next]_vars /\ WF_vars(Next)

(* aiter_content over every body and chunk size within the bounds *)
InitChunks ==
    /\ mode = "chunks"
    /\ pc = "iterating"
    /\ content \in {{}} \cup {{d} : d \in BytesUpTo(MaxBody)}
    /\ chunk_size \in 1..MaxChunk
    /\ idx = 0
    /\ chunks = <<>>
    /\ file_path = <<>>
    /\ IdleRequest
    /\ IdlePaths
    /\ IdleConfig

NextChunks == YieldChunk \/ StopIteration

SpecChunks == InitChunks /\ [][NextChunks]_vars

(* the request target over every path within the bounds *)
InitPaths ==
    /\ mode = "paths"
    /\ pc = "start"
    /\ file_path \in PathsUpTo(MaxPathLen)
    /\ IdleRequest
    /\ IdleChunks
    /\ IdlePaths
    /\ IdleConfig

NextPaths == RequestPlain \/ RequestSlashed

SpecPaths == InitPaths /\ [][NextPaths]_vars

(* the keyword arguments of both curl tiers over every configuration       *)
(* within the bounds                                                        *)
InitConfig ==
    /\ mode = "config"
    /\ pc = "start"
    /\ config \in [base_proxy_url : ConfigValues("b", MaxConfigLen),
                   asset_proxy_url : ConfigValues("a", MaxConfigLen),
                   browser : ConfigValues("c", MaxConfigLen)]
    /\ proxies = {}
    /\ sent = {}
    /\ cancelled = {}
    /\ file_path = <<>>
    /\ IdleRequest
    /\ IdleChunks
    /\ IdlePaths

NextConfig == ResolveProxies \/ BuildKwargs

SpecConfig == InitConfig /\ [][NextConfig]_vars

----------------------------------------------------------------------------
(* Properties of one call of request *)

Is200(a) == a.kind = "http" /\ a.status = 200

Failed(a) == ~Is200(a)

ResponseOf(tier, a) ==
    {[raised |-> {},
      response |-> {[tier |-> tier, status_code |-> 200, content |-> a.body]}]}

IsFailure(r) == r.raised # {} /\ r.response = {}

(* the status a failure handed to the caller carries *)
SurfacedStatus(r) ==
    LET e == CHOOSE x \in r.raised : TRUE
    IN  IF e.details_status # {} THEN e.details_status ELSE e.status_code

(* C1: in a cascade pass the tiers are invoked in the order 1, 2, 3, a     *)
(* tier only after every earlier tier of the pass failed, and the first    *)
(* tier answered with 200 ends the pass and the call: its response is the  *)
(* caller's result and no later tier is invoked.                            *)
C1_TierOrder ==
    /\ Len(invoked) <= 3
    /\ Len(answers) = Len(invoked)
    /\ \A i \in 1..Len(invoked) :
        /\ invoked[i] = i
        /\ i < Len(invoked) => Failed(answers[i])
        /\ Is200(answers[i]) =>
            /\ i = Len(invoked)
            /\ pc = "done"
            /\ result = ResponseOf(i, answers[i])

C1_Witness ==
    /\ pc = "done"
    /\ invoked = <<1, 2>>
    /\ Is200(answers[2])
    /\ answers[2].body = "y"

(* C2: when tier 1 and tier 2 failed (no response, or a status other than  *)
(* 200) and tier 3 is answered with 200, the caller has tier 3's response  *)
(* and the pass logged exactly two warnings.                                *)
C2_FallbackSucceeds ==
    (/\ Len(answers) = 3
     /\ Failed(answers[1])
     /\ Failed(answers[2])
     /\ Is200(answers[3]))
    => /\ pc = "done"
       /\ result = ResponseOf(3, answers[3])
       /\ warnings = 2

C2_Witness ==
    /\ Len(answers) = 3
    /\ answers[1].kind = "error"
    /\ answers[2].kind = "http" /\ answers[2].status = 401
    /\ Is200(answers[3]) /\ answers[3].body = "y"
    /\ pc = "done"

(* C3: when the upstream answers 401 to each of the three tiers, the call  *)
(* ends with exactly one record_fail(token, 401, reason) and the caller    *)
(* has an UpstreamException of status 401.                                  *)
C3_All401NotifiesOnce ==
    (/\ pc = "done"
     /\ Len(answers) = 3
     /\ \A i \in 1..3 : answers[i].kind = "http" /\ answers[i].status = 401)
    => /\ notifs = <<[token |-> token, status |-> {401},
                      reason |-> "assets_download_auth_failed"]>>
       /\ \E r \in result :
            /\ IsFailure(r)
            /\ \A e \in r.raised : e.cls = "UpstreamException"
            /\ SurfacedStatus(r) = {401}

(* C4: record_fail is called only for a failure of status 401: a call that *)
(* has made a notification is waiting for it or has ended with a failure   *)
(* of status 401; a call that ended with a response or with a failure of   *)
(* another status, or of none, has made no notification.                    *)
C4_NotifyOnly401 ==
    /\ notifs # <<>> =>
        /\ pc \in {"record_fail", "done"}
        /\ \A n \in 1..Len(notifs) : notifs[n].status = {401}
        /\ pc = "done" => \A r \in result : IsFailure(r) /\ SurfacedStatus(r) = {401}
    /\ pc = "done" =>
        \A r \in result :
            (~IsFailure(r) \/ SurfacedStatus(r) # {401}) => notifs = <<>>

C4_Witness ==
    /\ pc = "done"
    /\ Len(invoked) = 3
    /\ notifs = <<>>
    /\ \E r \in result : IsFailure(r) /\ SurfacedStatus(r) = {206}

(* C5: a call that has ended handed its caller exactly one outcome: a      *)
(* response of status 200, or one UpstreamException; that is the caught    *)
(* exception itself when it was an UpstreamException, and otherwise a new  *)
(* one of status 502 carrying the caught exception's text.                  *)
C5_AlwaysClassified ==
    pc = "done" =>
        /\ Cardinality(result) = 1
        /\ \A r \in result :
            \/ /\ r.raised = {}
               /\ Cardinality(r.response) = 1
               /\ \A x \in r.response : x.status_code = 200
               /\ caught = {}
            \/ /\ r.response = {}
               /\ Cardinality(r.raised) = 1
               /\ Cardinality(caught) = 1
               /\ \A e \in r.raised : \A c \in caught :
                    /\ e.cls = "UpstreamException"
                    /\ c.cls = "UpstreamException" => e = c
                    /\ c.cls # "UpstreamException" =>
                        /\ e.details_status = {502}
                        /\ e.details_error =
                             {[cls |-> c.cls, msg |-> c.msg, code |-> c.code]}

C5_Witness ==
    /\ pc = "done"
    /\ \E c \in caught : c.cls = "HTTPError" /\ c.code = {503}
    /\ \E r \in result : IsFailure(r) /\ SurfacedStatus(r) = {502}

(* C6: when record_fail raised, the caller still has the UpstreamException *)
(* of status 401 that was caught, as when record_fail returned.             *)
C6_RecordFailSuppressed ==
    (pc = "done" /\ recorded # {}) =>
        /\ Cardinality(caught) = 1
        /\ result = {[raised |-> caught, response |-> {}]}
        /\ \A r \in result : SurfacedStatus(r) = {401}
        /\ \A c \in caught : c.cls = "UpstreamException"

C6_Witness ==
    /\ pc = "done"
    /\ recorded = {[kind |-> "Exception", status |-> 0, body |-> ""]}
    /\ notifs # <<>>

(* C7: a pass that retry_on_status runs after a retryable failure begins   *)
(* at tier 1 and goes through the tiers in order, like the first one.      *)
C7_RetryFromTier1 ==
    (attempt >= 2 /\ pc # "backoff") =>
        /\ attempt <= budget
        /\ invoked = <<>> => pc = "tier1"
        /\ \A i \in 1..Len(invoked) : invoked[i] = i
        /\ pc \in {"tier1", "tier2", "tier3"} => pc = <<"tier1", "tier2", "tier3">>[Len(invoked) + 1]

C7_Witness ==
    /\ attempt = 2
    /\ budget >= 2
    /\ invoked = <<1, 2, 3>>
    /\ pc = "done"

----------------------------------------------------------------------------
(* Properties of aiter_content, of the path handling, of two calls *)

CeilDiv(n, c) == (n + c - 1) \div c

RECURSIVE Concat(_)
Concat(cs) == IF cs = <<>> THEN <<>> ELSE Head(cs) \o Concat(Tail(cs))

ContentLength == IF content = {} THEN 0 ELSE Len(CHOOSE d \in content : TRUE)

(* C8: over a body of N bytes with chunk size C >= 1 the generator yields  *)
(* ceil(N/C) chunks, all of length C except possibly the last, which is    *)
(* not empty; joined in order they are the body; an empty or absent body   *)
(* yields no chunk.                                                         *)
C8_ChunksCoverBody ==
    (mode = "chunks" /\ pc = "exhausted") =>
        /\ Len(chunks) = CeilDiv(ContentLength, chunk_size)
        /\ \A k \in 1..Len(chunks) :
            /\ k < Len(chunks) => Len(chunks[k]) = chunk_size
            /\ 1 <= Len(chunks[k]) /\ Len(chunks[k]) <= chunk_size
        /\ \A d \in content : Concat(chunks) = d
        /\ ContentLength = 0 => chunks = <<>>

C8_Witness ==
    /\ mode = "chunks"
    /\ pc = "exhausted"
    /\ content = {<<0, 1, 1, 0>>}
    /\ chunk_size = 3
    /\ chunks = << <<0, 1, 1>>, <<0>> >>

(* C9: a path that does not begin with the separator has the same target   *)
(* (URL and guessed content type) as that path behind one separator, which *)
(* is the URL of the host followed by one separator and the path; a path   *)
(* that begins with the separator is appended to the host as it is.        *)
C9_PathNormalized ==
    /\ \A t \in plain :
        IF Len(file_path) > 0 /\ file_path[1] = "/"
        THEN t.url = <<"https://assets.grok.com">> \o file_path
        ELSE t.url = <<"https://assets.grok.com", "/">> \o file_path
    /\ (plain # {} /\ slashed # {} /\ ~(Len(file_path) > 0 /\ file_path[1] = "/"))
        => plain = slashed

C9_Witness ==
    /\ mode = "paths"
    /\ file_path = <<"a", ".PNG">>
    /\ plain = {[url |-> <<"https://assets.grok.com", "/", "a", ".PNG">>,
                 content_type |-> {"image/png"}]}
    /\ slashed = plain

----------------------------------------------------------------------------
(* Properties of the cascade and of the retry wrapper around it *)

(* the status a failure of the cascade carries, classified or not *)
TerminalStatus(e) == e.details_status \cup e.status_code \cup e.code

(* C11: what leaves the three-tier cascade after tier 3 failed is an       *)
(* UpstreamException, whatever way tier 3 failed: never the exception of   *)
(* the HTTP client itself.                                                  *)
C11_CascadeRaisesClassified ==
    (Len(invoked) = 3 /\ pc \in {"except", "record_fail", "done"}) =>
        \A e \in caught : e.cls = "UpstreamException"

(* C12: a tier 1 or tier 2 answer other than 200 does what a transport     *)
(* exception does there: the next tier is asked and one more warning is    *)
(* logged.  The status seen at tier 1 or 2 reaches neither the caller nor  *)
(* record_fail: a pass ends with the response of the first tier answered   *)
(* 200, or with a failure that carries only what tier 3 saw.                *)
C12_EarlyStatusDiscarded ==
    /\ \A i \in 1..Len(answers) :
        (i <= 2 /\ Failed(answers[i])) =>
            /\ warnings >= i
            /\ Len(invoked) > i \/ pc = <<"tier2", "tier3">>[i]
    /\ \A i \in 1..Len(answers) :
        Is200(answers[i]) => (result = ResponseOf(i, answers[i]) /\ notifs = <<>>)
    /\ (pc = "done" /\ Len(answers) = 3 /\ Failed(answers[3])) =>
        \A r \in result :
            /\ IsFailure(r)
            /\ SurfacedStatus(r) \subseteq {502, answers[3].status}
            /\ \A e \in r.raised : \A d \in e.details_error :
                d.code \subseteq {answers[3].status}
    /\ (invoked # <<>> /\ notifs # <<>>) =>
        /\ Len(answers) = 3
        /\ \A n \in 1..Len(notifs) : notifs[n].status = {answers[3].status}

C12_Witness ==
    /\ pc = "done"
    /\ Len(answers) = 3
    /\ answers[1].kind = "http" /\ answers[1].status = 401
    /\ answers[2].kind = "http" /\ answers[2].status = 401
    /\ Is200(answers[3])
    /\ notifs = <<>>
    /\ warnings = 2

(* C13: in a cascade pass each tier is invoked at most once, so a pass     *)
(* sends at most three requests, and a call whose attempt budget is A      *)
(* sends at most 3 * A.                                                     *)
C13_RequestsBounded ==
    /\ Len(invoked) <= 3
    /\ \A i, j \in 1..Len(invoked) : invoked[i] = invoked[j] => i = j
    /\ attempt <= budget
    /\ attempt >= 1 => requests = 3 * (attempt - 1) + Len(invoked)
    /\ requests <= 3 * budget

C13_Witness ==
    /\ budget = 2
    /\ requests = 6
    /\ pc = "done"

(* C14: a failure of the cascade whose status is not retryable, or that    *)
(* comes when the attempt budget is used up, is not followed by another    *)
(* pass and reaches the caller as it left the cascade, with the same       *)
(* status, message and details; a status that is not retryable means one   *)
(* pass.                                                                    *)
C14_TerminalFailureUnchanged ==
    (/\ pc = "done"
     /\ Len(invoked) = 3
     /\ caught # {}
     /\ \A e \in caught : TerminalStatus(e) # {}) =>
        /\ result = {[raised |-> caught, response |-> {}]}
        /\ \A e \in caught : ~(TerminalStatus(e) \subseteq retryable) => attempt = 1

(* C15: the call does not wait for record_fail: once the notification is   *)
(* issued the failure of status 401 is with the caller, whether the        *)
(* notification has completed or not; and it is issued at most once.       *)
C15_NotificationNotAwaited ==
    notifs # <<>> =>
        /\ Len(notifs) = 1
        /\ pc = "done"
        /\ \A r \in result : IsFailure(r) /\ SurfacedStatus(r) = {401}
        /\ result # {}

----------------------------------------------------------------------------
(* Properties of the tier configuration *)

(* a configuration value without the blanks around it; empty for None *)
Trimmed(v) ==
    IF v = {} THEN <<>>
    ELSE LET str == CHOOSE x \in v : TRUE
             inked == {i \in 1..Len(str) : str[i] # " "}
         IN  IF inked = {} THEN <<>>
             ELSE SubSeq(str, CHOOSE i \in inked : \A j \in inked : i <= j,
                              CHOOSE i \in inked : \A j \in inked : j <= i)

ResolvedProxy ==
    IF Trimmed(config.asset_proxy_url) # <<>> THEN Trimmed(config.asset_proxy_url)
    ELSE Trimmed(config.base_proxy_url)

(* C16: tier 2 is sent with neither proxy nor impersonation; tier 1 with   *)
(* the proxy exactly when the resolved proxy URL is not empty and with the *)
(* impersonation profile exactly when the configured profile is not empty. *)
(* The resolved URL is the trimmed asset proxy when that is not empty,     *)
(* else the trimmed base proxy when that is not empty, else none.          *)
C16_TierConfiguration ==
    \A k \in sent :
        /\ k.tier = 2 => (k.kwargs.proxies = {} /\ k.kwargs.impersonate = {})
        /\ k.tier = 1 =>
            /\ k.kwargs.proxies # {} <=> ResolvedProxy # <<>>
            /\ \A x \in k.kwargs.proxies :
                x.http = ResolvedProxy /\ x.https = ResolvedProxy
            /\ k.kwargs.impersonate # {} <=>
                (config.browser # {} /\ config.browser # {<<>>})
            /\ k.kwargs.impersonate # {} => k.kwargs.impersonate = config.browser

C16_Witness ==
    /\ mode = "config"
    /\ config = [base_proxy_url |-> {<<"b">>}, asset_proxy_url |-> {<<" ", "a">>},
                 browser |-> {<<"c">>}]
    /\ sent = {[tier |-> 1,
                kwargs |-> [proxies |-> {[http |-> <<"a">>, https |-> <<"a">>]},
                            impersonate |-> {<<"c">>}]],
               [tier |-> 2, kwargs |-> [proxies |-> {}, impersonate |-> {}]]}

----------------------------------------------------------------------------
(* Properties of a cancelled call *)

(* C17: a cancellation that arrives while a tier or the backoff wait is    *)
(* pending ends the call with the cancellation itself: no tier and no pass *)
(* is started after it, no warning is logged for it, record_fail is not    *)
(* called, the except block does not turn it into an UpstreamException,    *)
(* and what the worker thread of tier 3 returns later changes nothing.     *)
C17_CancellationPropagates ==
    \A c \in cancelled :
        /\ pc = "cancelled"
        /\ attempt = c.attempt
        /\ requests = c.requests
        /\ warnings = c.warnings
        /\ notifs = <<>>
        /\ caught = {}
        /\ result = {[raised |-> {[cls |-> "CancelledError", msg |-> "", code |-> {},
                                   details_status |-> {}, status_code |-> {},
                                   details_error |-> {}]},
                      response |-> {}]}
        /\ c.at = "tier3" <=> c.worker \in {"running", "discarded"}

C17_Witness ==
    /\ pc = "cancelled"
    /\ \E c \in cancelled : c.at = "tier3" /\ c.worker = "discarded" /\ c.attempt = 2

----------------------------------------------------------------------------
(* Termination, and the number of notifications *)

TierRank(p) == IF p = "tier1" THEN 1 ELSE IF p = "tier2" THEN 2 ELSE 3

Tiers == {"tier1", "tier2", "tier3"}

(* a step that stays in one pass goes from a tier to a later tier only *)
EscalatesForward ==
    (pc \in Tiers /\ pc' \in Tiers /\ attempt' = attempt)
        => TierRank(pc') > TierRank(pc)

(* a step into a tier from outside the cascade starts a pass at tier 1 *)
PassStartsAtTier1 ==
    (pc \notin Tiers /\ pc' \in Tiers)
        => pc' = "tier1" /\ attempt' = attempt + 1 /\ attempt' <= budget

Ended ==
    /\ pc = "done"
    /\ \E r \in result :
        \/ r.raised = {} /\ \E x \in r.response : x.status_code = 200
        \/ IsFailure(r) /\ \A e \in r.raised : e.cls = "UpstreamException"

(* C18: when every tier attempt, every backoff wait and the record_fail    *)
(* call come back, a call ends, for good, with a response or with an       *)
(* UpstreamException; within a pass the tiers are only taken in the order  *)
(* 1, 2, 3, a pass starts at tier 1 and there are at most budget passes.   *)
C18_Terminates ==
    /\ [][EscalatesForward /\ PassStartsAtTier1]_vars
    /\ <>[]Ended

C18_Witness ==
    /\ mode = "live"
    /\ Ended
    /\ attempt = 2
    /\ warnings = 2

(* C19: a call makes at most one notification, and none while a pass, the  *)
(* backoff wait or the except block's decision is still to come: the       *)
(* number of passes and the statuses the tiers answered with do not count. *)
C19_OneNotificationPerCall ==
    /\ Len(notifs) <= 1
    /\ pc \in Tiers \cup {"start", "backoff", "except"} => notifs = <<>>

C19_Witness ==
    /\ pc = "done"
    /\ attempt = 2
    /\ notifs = <<>>
    /\ Len(answers) = 3
    /\ answers[1].kind = "http" /\ answers[1].status = 401
    /\ answers[2].kind = "http" /\ answers[2].status = 401
    /\ \E r \in result : IsFailure(r)

====
